---- MODULE Spec2Model ----
(***************************************************************************)
(* Model of the Windows service controller of zutil/daemon                 *)
(* (daemon_windows.go): the administrative operations Install, Uninstall,  *)
(* Start, Stop, Restart and Status with the stop escalation of stopWait,   *)
(* the control loop Execute and the two strategies of Run.                 *)
(*                                                                         *)
(* Time is counted in units of 50 ms, so that the 100 ms poll interval of  *)
(* stopWait is two units and a workload can stop between two polls.        *)
(* One operation of the controller runs at a time (the controller has no   *)
(* locking beyond the error box, callers do not overlap operations).       *)
(***************************************************************************)
EXTENDS Integers, Sequences, FiniteSets, TLC

\* ---------------------------------------------------------------- bounds
MaxStopTimeout == 3   \* largest configured stop timeout, in time units
MaxLate == 2          \* poll ticks followed after the deadline has fired
MaxPid == 2           \* process identifiers 1..MaxPid
MaxSignals == 3       \* control signals delivered to one control loop

\* time.Millisecond * 100 (stopWait), in units of 50 ms
TickInterval == 2

Never == -1
Pids == 1..MaxPid
NilErr == "nil"
WorkloadErrs == {"errA", "errB"}
ConnectOutcomes == {"ok", "denied", "fail"}
CtlOutcomes == {"accepted", "notvalid", "other"}
Cmds == {"Stop", "Shutdown", "Interrogate", "Pause", "Continue"}

VARIABLES
  \* the service manager and the event log, for the one service name
  registered, logSource, recovery, svcState, openSessions, openHandles,
  \* the controller: Config (restart policy, Context) and the process-wide
  \* interactive flag; the kill signals that have arrived
  restartPolicy, interactive, killArrived, ctxDone,
  \* the operation in progress (or the last one), its position, its result
  op, pc, result,
  \* the manager calls the operation has made, the result of the Stop it
  \* called, for Status the operation before it and that one's result, and
  \* the outcome of the operation's last connect
  calls, stopRes, prevOp, prevRes, conn,
  \* stopWait
  ctl, stopTimeout, status, now, nextTick, timeoutFired, stopAt,
  forceCalls, lastKilled, queryFailed, lateTicks, recFailed,
  \* Run and Execute
  stopStartErr, reported, startCalls, stopCalls, cmds,
  exitCode, ssec, startRet, stopRet, runErr, boxBefore,
  \* Install
  created, logFailed, deleteFailed, regBefore, logBefore

mgrVars == <<registered, logSource, recovery, svcState, openSessions, openHandles>>
cfgVars == <<restartPolicy, interactive, killArrived, ctxDone>>
swVars == <<ctl, stopTimeout, status, now, nextTick, timeoutFired, stopAt,
            forceCalls, lastKilled, queryFailed, lateTicks, recFailed>>
runVars == <<reported, startCalls, stopCalls, cmds,
             exitCode, ssec, startRet, stopRet, runErr, boxBefore>>
instVars == <<created, logFailed, deleteFailed, regBefore, logBefore>>
histVars == <<calls, stopRes, prevOp, prevRes, conn>>
vars == <<mgrVars, cfgVars, op, pc, result, histVars, swVars, stopStartErr,
          runVars, instVars>>

\* ------------------------------------------------------------- helpers

\* variant of connect: an access-denied failure is returned like any other
connectRaw(outcome) == IF outcome = "ok" THEN NilErr ELSE "ErrConnect"

\* connect(): an access-denied failure becomes ErrNotAnAdministrator,
\* any other failure is returned as it is.
connect(outcome) ==
  IF outcome = "ok" THEN NilErr
  ELSE IF outcome = "denied" THEN "ErrNotAnAdministrator"
  ELSE "ErrConnect"

\* whether the sequence seq holds x
Has(seq, x) == \E i \in 1..Len(seq) : seq[i] = x

\* isServiceRestart(w.Config): the restart-policy flag of the config.
isServiceRestart == restartPolicy

\* the locals of a stopWait call that has not run
SWIdle ==
  /\ ctl' = "none" /\ stopTimeout' = 0
  /\ status' = [State |-> "none", ProcessId |-> 0]
  /\ now' = 0 /\ nextTick' = 0 /\ timeoutFired' = FALSE /\ stopAt' = Never
  /\ forceCalls' = 0 /\ lastKilled' = 0
  /\ queryFailed' = FALSE /\ lateTicks' = 0 /\ recFailed' = FALSE

\* the locals of a Run that has not run (the error box is a field of the
\* controller and is not among them)
RunIdle ==
  /\ reported' = "none" /\ startCalls' = 0 /\ stopCalls' = 0
  /\ cmds' = <<>> /\ exitCode' = 0 /\ ssec' = FALSE
  /\ startRet' = NilErr /\ stopRet' = NilErr /\ runErr' = NilErr
  /\ boxBefore' = NilErr

\* no Stop called by the operation, and no operation noted before it
HistIdle == stopRes' = "none" /\ prevOp' = "none" /\ prevRes' = "none"

InstIdle ==
  /\ created' = FALSE /\ logFailed' = FALSE /\ deleteFailed' = FALSE
  /\ regBefore' = registered /\ logBefore' = logSource

Init ==
  /\ registered = FALSE /\ logSource = FALSE /\ recovery = "unset"
  /\ svcState = "Stopped" /\ openSessions = 0 /\ openHandles = 0
  /\ restartPolicy \in BOOLEAN /\ interactive \in BOOLEAN
  /\ killArrived = 0 /\ ctxDone = FALSE
  /\ calls = <<>> /\ stopRes = "none" /\ prevOp = "none" /\ prevRes = "none"
  /\ conn = "none"
  /\ op = "none" /\ pc = "done" /\ result = NilErr
  /\ ctl = "none" /\ stopTimeout = 0
  /\ status = [State |-> "none", ProcessId |-> 0]
  /\ now = 0 /\ nextTick = 0 /\ timeoutFired = FALSE /\ stopAt = Never
  /\ forceCalls = 0 /\ lastKilled = 0
  /\ queryFailed = FALSE /\ lateTicks = 0 /\ recFailed = FALSE
  /\ stopStartErr = NilErr
  /\ reported = "none" /\ startCalls = 0 /\ stopCalls = 0
  /\ cmds = <<>> /\ exitCode = 0 /\ ssec = FALSE
  /\ startRet = NilErr /\ stopRet = NilErr /\ runErr = NilErr
  /\ boxBefore = NilErr
  /\ created = FALSE /\ logFailed = FALSE /\ deleteFailed = FALSE
  /\ regBefore = FALSE /\ logBefore = FALSE

\* ----------------------------------------------------------- Install

\* variant of InstallExists: the existence test is dropped
InstallExistsNever(reg) == FALSE

\* m.OpenService(w.Name) returned no error: the name is registered.
InstallExists(reg) == reg

\* variant of InstallRollback: the entry is left behind, no deletion
InstallNoRollback(deleteOk) == TRUE

\* `_ = s.Delete()` after a failed log-source registration: whether the
\* entry is still registered afterwards.  It is gone when the deletion
\* succeeds and stays when it fails; the deletion's error is discarded.
InstallRollback(deleteOk) == ~deleteOk

\* the error Install returns, from the outcomes of its calls
InstallResult(c, exists, createOk, logOk) ==
  IF connect(c) # NilErr THEN connect(c)
  ELSE IF exists THEN "AlreadyExists"
  ELSE IF ~createOk THEN "ErrCreate"
  ELSE IF ~logOk THEN "ErrInstallAsEventCreate"
  ELSE NilErr

\* a deferred m.Disconnect() or s.Close(): what was acquired is released
\* on every return path
Deferred(n) == n

\* variant of InstallClosed: the handle of an existing entry stays open
InstallClosedCreated(exists, didCreate) == IF didCreate THEN 1 ELSE 0

\* the handles Install closes: the one of the existing entry (s.Close()
\* before the "already exists" return) or, deferred, the one of the entry
\* it created
InstallClosed(exists, didCreate) == IF exists \/ didCreate THEN 1 ELSE 0

\* the manager calls of Install, in their order
InstallCalls(c, exists, didCreate, logOk) ==
  IF connect(c) # NilErr THEN <<>>
  ELSE IF exists THEN <<"open">>
  ELSE IF ~didCreate THEN <<"open", "create">>
  ELSE IF ~logOk THEN <<"open", "create", "delete">>
  ELSE IF isServiceRestart THEN <<"open", "create", "recovery">>
  ELSE <<"open", "create">>

\* Install: connect, refuse a registered name, create the entry, register
\* the log source (deleting the entry again when that fails), set the
\* recovery action when the restart policy is on.  The manager refuses to
\* create an entry whose name is registered.
Install(c, createOk, logOk, deleteOk, recOk) ==
  /\ pc = "done"
  /\ op' = "Install" /\ pc' = "done"
  /\ SWIdle /\ RunIdle /\ HistIdle
  /\ regBefore' = registered /\ logBefore' = logSource
  /\ LET exists == InstallExists(registered)
         doCreate == connect(c) = NilErr /\ ~exists
         didCreate == doCreate /\ createOk /\ ~registered
         sess == IF connect(c) = NilErr THEN 1 ELSE 0
         hnd == IF connect(c) = NilErr /\ (registered \/ didCreate) THEN 1 ELSE 0
     IN /\ result' = InstallResult(c, exists, didCreate, logOk)
        /\ calls' = InstallCalls(c, exists, didCreate, logOk)
        /\ conn' = c
        /\ created' = didCreate
        /\ logFailed' = (didCreate /\ ~logOk)
        /\ deleteFailed' = (didCreate /\ ~logOk /\ ~deleteOk)
        /\ registered' = IF didCreate
                         THEN (IF logOk THEN TRUE ELSE InstallRollback(deleteOk))
                         ELSE registered
        /\ logSource' = IF didCreate /\ logOk THEN TRUE ELSE logSource
        /\ recovery' = IF didCreate /\ logOk /\ isServiceRestart /\ recOk
                       THEN "restart"
                       ELSE IF didCreate THEN "unset" ELSE recovery
        /\ svcState' = IF didCreate THEN "Stopped" ELSE svcState
        /\ openSessions' = openSessions + sess - Deferred(sess)
        /\ openHandles' = openHandles + hnd
                            - InstallClosed(connect(c) = NilErr /\ exists, didCreate)
  /\ UNCHANGED <<cfgVars, stopStartErr>>

\* ------------------------------------------------------------- Start

\* the error Start returns: that of connect, of OpenService, of s.Start()
StartResult(c, reg, started) ==
  IF connect(c) # NilErr THEN connect(c)
  ELSE IF ~reg THEN "ErrOpenService"
  ELSE IF ~started THEN "ErrStart"
  ELSE NilErr

\* the manager calls of Start, in their order
StartCalls(c, reg) ==
  IF connect(c) # NilErr THEN <<>>
  ELSE IF ~reg THEN <<"open">>
  ELSE IF isServiceRestart THEN <<"open", "recovery", "start">>
  ELSE <<"open", "start">>

\* what Start changes at the manager: the restart recovery action is
\* reasserted under the restart policy (an error of that call is
\* discarded) and a stopped service is started.  The manager refuses to
\* start a service that is not stopped; the command can also fail.
StartChanges(c, recOk, startOk) ==
  LET opened == connect(c) = NilErr /\ registered
  IN /\ recovery' = IF opened /\ isServiceRestart /\ recOk
                    THEN "restart" ELSE recovery
     /\ svcState' = IF opened /\ startOk /\ svcState = "Stopped"
                    THEN "Running" ELSE svcState

\* Start: connect, open the entry, reassert the restart recovery action,
\* issue the start command.
Start(c, recOk, startOk) ==
  /\ pc = "done"
  /\ op' = "Start" /\ pc' = "done"
  /\ SWIdle /\ RunIdle /\ InstIdle /\ HistIdle
  /\ StartChanges(c, recOk, startOk)
  /\ result' = StartResult(c, registered, svcState' = "Running" /\ svcState = "Stopped")
  /\ calls' = StartCalls(c, registered)
  /\ conn' = c
  /\ LET sess == IF connect(c) = NilErr THEN 1 ELSE 0
         hnd == IF connect(c) = NilErr /\ registered THEN 1 ELSE 0
     IN /\ openSessions' = openSessions + sess - Deferred(sess)
        /\ openHandles' = openHandles + hnd - Deferred(hnd)
  /\ UNCHANGED <<registered, logSource, cfgVars, stopStartErr>>

\* ------------------------------------------------------------ Status

\* the numeric value of a service state (svc.State)
StateCode(st) ==
  CASE st = "Stopped" -> 1 [] st = "StartPending" -> 2
    [] st = "StopPending" -> 3 [] st = "Running" -> 4 [] OTHER -> 0

\* variant of StatusLabel: every state is named by its number
StatusLabelCode(st) == ToString(StateCode(st))

\* the switch of Status on q.State, with strconv.Itoa for the other states
StatusLabel(st) ==
  IF st = "Running" THEN "Running"
  ELSE IF st = "StopPending" THEN "StopPending"
  ELSE IF st = "Stopped" THEN "Stop"
  ELSE ToString(StateCode(st))

\* the text Status returns
StatusResult(c, reg, qok, st) ==
  IF connect(c) # NilErr THEN "Unknown"
  ELSE IF ~reg THEN "ErrOpenService"
  ELSE IF ~qok THEN "ErrQuery"
  ELSE StatusLabel(st)

\* the manager calls of Status, in their order
StatusCalls(c, reg) ==
  IF connect(c) # NilErr THEN <<>>
  ELSE IF ~reg THEN <<"open">>
  ELSE <<"open", "query">>

\* Status: connect, open the entry, query it, name the state
Status(c, qok) ==
  /\ pc = "done"
  /\ op' = "Status" /\ pc' = "done"
  /\ SWIdle /\ RunIdle /\ InstIdle
  /\ stopRes' = "none" /\ prevOp' = op /\ prevRes' = result
  /\ result' = StatusResult(c, registered, qok, svcState)
  /\ calls' = StatusCalls(c, registered)
  /\ conn' = c
  /\ LET sess == IF connect(c) = NilErr THEN 1 ELSE 0
         hnd == IF connect(c) = NilErr /\ registered THEN 1 ELSE 0
     IN /\ openSessions' = openSessions + sess - Deferred(sess)
        /\ openHandles' = openHandles + hnd - Deferred(hnd)
  /\ UNCHANGED <<registered, logSource, recovery, svcState, cfgVars, stopStartErr>>

\* -------------------------------------------------- Stop and stopWait

\* the times, after the stop command, at which a workload can reach Stopped
StopTimes == {Never} \cup (0..MaxStopTimeout) \cup {MaxStopTimeout + 2 * TickInterval + 1}

\* variant of Deadline: the timer is set to the stop timeout alone
DeadlineNoSlack(t) == t

\* time.After(getStopTimeout() + (timeDuration * 2))
Deadline(t) == t + (TickInterval * 2)

\* what the manager reports at time t for a service in state cur whose
\* workload reaches Stopped at time sa
Observed(sa, t, cur) == IF sa # Never /\ sa <= t THEN "Stopped" ELSE cur

\* variant of IsNotValid: no rejection is recovered from
IsNotValidNever(c) == FALSE

\* strings.Contains(err.Error(), "not valid"): the rejections of the stop
\* command that stopWait recovers from
IsNotValid(c) == c = "notvalid"

\* the error of a rejected stop command
CtlErr(c) == IF c = "notvalid" THEN "ErrNotValid" ELSE "ErrControl"

\* the for condition of the poll loop, `status.State != svc.Stopped`, as
\* the position it leads to
LoopHead(st) == IF st = "Stopped" THEN "done" ELSE "loop"

\* the timeout case ends in `break`, which leaves the select statement
\* and not the for loop: the loop condition is evaluated again
AfterDeadline(st) == LoopHead(st)

\* forceKeep's effect on the workload: a taskkill that works makes the
\* service stopped from now on; its error is discarded by stopWait
KillEffect(sa, t, killOk) ==
  IF killOk /\ (sa = Never \/ sa > t) THEN t ELSE sa

\* the stop timeouts getStopTimeout() can return, in time units
StopTimeouts == 1..MaxStopTimeout

\* the operations that run Stop: Stop itself, and Uninstall and Restart,
\* which call it
StopOps == {"Stop", "Uninstall", "Restart"}

\* where a return of Stop leads: to the caller's next statement when
\* Uninstall or Restart called it
Ret(o, p) == IF p = "done" /\ o \in {"Uninstall", "Restart"} THEN "afterStop" ELSE p

\* the session and the handle Uninstall holds while the Stop it called runs
Held(o) == IF o = "Uninstall" THEN 1 ELSE 0

\* variant of AfterFallback: the fallback of a rejected stop returns
AfterFallbackReturns(st) == "done"

\* after the fallback of a "not valid" rejection (query, forceKeep) the
\* if block is left and the poll loop of stopWait follows
AfterFallback(st) == LoopHead(st)

\* stopWait up to its poll loop, on an open handle: issue the stop command;
\* a "not valid" rejection is answered by a query and a forced termination
\* of the process the query names, any other rejection is returned.  The
\* manager accepts a stop only for a service that is not stopped.  pre are
\* the manager calls made before.
stopWaitBegin(pre) ==
  \E ctlOut \in CtlOutcomes :
    /\ ctlOut = "accepted" => svcState # "Stopped"
    /\ ctl' = ctlOut
    /\ IF ctlOut = "accepted"
       THEN \E t \in StopTimeouts, sa \in StopTimes, p \in Pids :
              /\ stopTimeout' = t
              /\ status' = [State |-> Observed(sa, 0, "StopPending"), ProcessId |-> p]
              /\ stopAt' = sa
              /\ forceCalls' = 0 /\ lastKilled' = 0 /\ queryFailed' = FALSE
              /\ svcState' = status'.State
              /\ result' = NilErr
              /\ calls' = pre \o <<"control">>
              /\ pc' = Ret(op', LoopHead(status'.State))
       ELSE IF ~IsNotValid(ctlOut)
       THEN /\ stopTimeout' = 0
            /\ status' = [State |-> "none", ProcessId |-> 0]
            /\ stopAt' = Never
            /\ forceCalls' = 0 /\ lastKilled' = 0 /\ queryFailed' = FALSE
            /\ result' = CtlErr(ctlOut)
            /\ calls' = pre \o <<"control">>
            /\ pc' = Ret(op', "done")
            /\ UNCHANGED svcState
       ELSE \/ /\ stopTimeout' = 0
               /\ status' = [State |-> "none", ProcessId |-> 0]
               /\ stopAt' = Never
               /\ forceCalls' = 0 /\ lastKilled' = 0 /\ queryFailed' = TRUE
               /\ result' = "ErrQuery"
               /\ calls' = pre \o <<"control", "query">>
               /\ pc' = Ret(op', "done")
               /\ UNCHANGED svcState
            \/ \E t \in StopTimeouts, sa \in StopTimes, p \in Pids, killOk \in BOOLEAN :
               /\ stopTimeout' = t
               /\ status' = [State |-> Observed(sa, 0, svcState), ProcessId |-> p]
               /\ svcState' = status'.State
               /\ forceCalls' = 1 /\ lastKilled' = p /\ queryFailed' = FALSE
               /\ stopAt' = KillEffect(sa, 0, killOk)
               /\ result' = NilErr
               /\ calls' = pre \o <<"control", "query">>
               /\ pc' = Ret(op', AfterFallback(status'.State))

\* variant of StopCalls: the recovery action is not switched off before
\* the stop command
StopCallsNoRecovery(policy) == <<"open">>

\* the manager calls of Stop before stopWait, in their order: the entry is
\* opened and, under the restart policy, the recovery action switched off
StopCalls(policy) == IF policy THEN <<"open", "recovery">> ELSE <<"open">>

\* w.Stop() up to the poll loop of stopWait, called as operation o or by
\* it: connect, open the entry, switch the recovery action off under the
\* restart policy (an error of that call is discarded), run stopWait.  The
\* session and the handle are released when Stop returns.  pre are the
\* manager calls o made before.
StopCall(o, c, pre) ==
  /\ op' = o
  /\ conn' = c
  /\ RunIdle /\ InstIdle /\ HistIdle
  /\ lateTicks' = 0 /\ timeoutFired' = FALSE /\ now' = 0
  /\ nextTick' = TickInterval
  /\ IF connect(c) # NilErr \/ ~registered
     THEN /\ result' = IF connect(c) # NilErr THEN connect(c) ELSE "ErrOpenService"
          /\ pc' = Ret(o, "done")
          /\ calls' = IF connect(c) # NilErr THEN pre ELSE pre \o <<"open">>
          /\ ctl' = "none" /\ stopTimeout' = 0 /\ stopAt' = Never
          /\ status' = [State |-> "none", ProcessId |-> 0]
          /\ forceCalls' = 0 /\ lastKilled' = 0 /\ queryFailed' = FALSE
          /\ openSessions' = Held(o) /\ openHandles' = Held(o)
          /\ recFailed' = FALSE
          /\ UNCHANGED <<recovery, svcState>>
     ELSE /\ \E recOk \in (IF isServiceRestart THEN BOOLEAN ELSE {TRUE}) :
               LET called == Has(StopCalls(isServiceRestart), "recovery")
               IN /\ recovery' = IF called /\ recOk THEN "noaction" ELSE recovery
                  /\ recFailed' = (called /\ ~recOk)
          /\ stopWaitBegin(pre \o StopCalls(isServiceRestart))
          /\ openSessions' = Held(o) + (IF pc' = "loop" THEN 1 ELSE 0)
          /\ openHandles' = Held(o) + (IF pc' = "loop" THEN 1 ELSE 0)
  /\ UNCHANGED <<registered, logSource, cfgVars, stopStartErr>>

\* Stop
StopBegin(c) ==
  /\ pc = "done"
  /\ StopCall("Stop", c, <<>>)

\* the select statement of the poll loop takes the channel that is ready
\* first, and either one when both are ready
TickReady == timeoutFired \/ nextTick <= Deadline(stopTimeout)
DeadlineReady == ~timeoutFired /\ Deadline(stopTimeout) <= nextTick

\* case <-tick.C: query the status again; a failed query is returned
StopTick(qok, p) ==
  /\ op \in StopOps /\ pc = "loop"
  /\ TickReady
  /\ timeoutFired => lateTicks < MaxLate
  /\ now' = nextTick
  /\ nextTick' = nextTick + TickInterval
  /\ lateTicks' = IF timeoutFired THEN lateTicks + 1 ELSE lateTicks
  /\ calls' = Append(calls, "query")
  /\ IF ~qok
     THEN /\ status' = [State |-> "none", ProcessId |-> 0]
          /\ queryFailed' = TRUE
          /\ result' = "ErrQuery"
          /\ pc' = Ret(op, "done")
          /\ UNCHANGED svcState
     ELSE /\ status' = [State |-> Observed(stopAt, now', svcState), ProcessId |-> p]
          /\ svcState' = status'.State
          /\ result' = NilErr
          /\ pc' = Ret(op, LoopHead(status'.State))
          /\ UNCHANGED queryFailed
  /\ openSessions' = Held(op) + (IF pc' = "loop" THEN 1 ELSE 0)
  /\ openHandles' = Held(op) + (IF pc' = "loop" THEN 1 ELSE 0)
  /\ UNCHANGED <<registered, logSource, recovery, cfgVars, op, ctl,
                 stopTimeout, timeoutFired, stopAt, forceCalls, lastKilled,
                 recFailed, stopStartErr, runVars, instVars, stopRes, prevOp,
                 prevRes, conn>>

\* case <-timeout: force-terminate the process of the last query result
StopDeadline(killOk) ==
  /\ op \in StopOps /\ pc = "loop"
  /\ DeadlineReady
  /\ now' = Deadline(stopTimeout)
  /\ timeoutFired' = TRUE
  /\ forceCalls' = forceCalls + 1
  /\ lastKilled' = status.ProcessId
  /\ stopAt' = KillEffect(stopAt, now', killOk)
  /\ pc' = Ret(op, AfterDeadline(status.State))
  /\ openSessions' = Held(op) + (IF pc' = "loop" THEN 1 ELSE 0)
  /\ openHandles' = Held(op) + (IF pc' = "loop" THEN 1 ELSE 0)
  /\ UNCHANGED <<registered, logSource, recovery, svcState, cfgVars, op,
                 result, ctl, stopTimeout, status, nextTick,
                 queryFailed, lateTicks, recFailed, stopStartErr, runVars,
                 instVars, histVars>>

\* --------------------------------------------------------- Uninstall

\* variant of UninstallResult: the error of the Stop is returned
UninstallResultStopFirst(stopErr, deleteOk, removeOk) ==
  IF stopErr # NilErr THEN stopErr
  ELSE IF ~deleteOk THEN "ErrDelete"
  ELSE IF ~removeOk THEN "ErrRemoveEventLogSource"
  ELSE NilErr

\* the error Uninstall returns once the entry is open: `_ = w.Stop()`
\* drops the error of the Stop, the error of s.Delete() is returned, then
\* the wrapped error of eventlog.Remove
UninstallResult(stopErr, deleteOk, removeOk) ==
  IF ~deleteOk THEN "ErrDelete"
  ELSE IF ~removeOk THEN "ErrRemoveEventLogSource"
  ELSE NilErr

\* variant of UninstallOpenErr: the error of OpenService is returned
UninstallOpenErrRaw == "ErrOpenService"

\* the error Uninstall returns when the entry cannot be opened
UninstallOpenErr == "NotInstalled"

\* Uninstall up to the poll loop of the Stop it calls: connect, open the
\* entry ("is not installed" when that fails), call Stop, which connects
\* and opens the entry again
UninstallBegin(c, c2) ==
  /\ pc = "done"
  /\ IF connect(c) # NilErr \/ ~registered
     THEN /\ op' = "Uninstall" /\ pc' = "done"
          /\ result' = IF connect(c) # NilErr THEN connect(c) ELSE UninstallOpenErr
          /\ calls' = IF connect(c) # NilErr THEN <<>> ELSE <<"open">>
          /\ conn' = c
          /\ SWIdle /\ RunIdle /\ InstIdle /\ HistIdle
          /\ LET sess == IF connect(c) = NilErr THEN 1 ELSE 0
             IN openSessions' = openSessions + sess - Deferred(sess)
          /\ UNCHANGED <<registered, logSource, recovery, svcState,
                         openHandles, cfgVars, stopStartErr>>
     ELSE StopCall("Uninstall", c2, <<"open">>)

\* Uninstall after the Stop it called has returned (the locals of that
\* call are gone): delete the entry, remove the log source; the session
\* and the handle are released
UninstallFinish(deleteOk, removeOk) ==
  /\ op = "Uninstall" /\ pc = "afterStop"
  /\ SWIdle
  /\ stopRes' = result
  /\ result' = UninstallResult(result, deleteOk, removeOk)
  /\ calls' = Append(calls, "delete")
  /\ registered' = IF deleteOk THEN FALSE ELSE registered
  /\ logSource' = IF deleteOk /\ removeOk THEN FALSE ELSE logSource
  /\ openSessions' = openSessions - Deferred(Held(op))
  /\ openHandles' = openHandles - Deferred(Held(op))
  /\ pc' = "done"
  /\ UNCHANGED <<recovery, svcState, cfgVars, op, prevOp, prevRes, conn,
                 stopStartErr, runVars, instVars>>

\* ----------------------------------------------------------- Restart

\* variant of RestartAborts: Start is called whatever Stop returned
RestartAbortsNever(stopErr) == FALSE

\* `err := w.Stop(); if err != nil { return err }`
RestartAborts(stopErr) == stopErr # NilErr

\* Restart up to the poll loop of the Stop it calls
RestartBegin(c) ==
  /\ pc = "done"
  /\ StopCall("Restart", c, <<>>)

\* Restart after the Stop it called has returned (the locals of that call
\* are gone): its error is returned, otherwise Start is called
RestartFinish(c, recOk, startOk) ==
  /\ op = "Restart" /\ pc = "afterStop"
  /\ SWIdle
  /\ stopRes' = result
  /\ pc' = "done"
  /\ IF RestartAborts(result)
     THEN UNCHANGED <<result, calls, conn, recovery, svcState>>
     ELSE /\ StartChanges(c, recOk, startOk)
          /\ conn' = c
          /\ result' = StartResult(c, registered,
                                   svcState' = "Running" /\ svcState = "Stopped")
          /\ calls' = calls \o StartCalls(c, registered)
  /\ UNCHANGED <<registered, logSource, openSessions, openHandles, cfgVars,
                 op, prevOp, prevRes, stopStartErr, runVars, instVars>>

\* ---------------------------------------------------- Run and Execute

\* setError / getError: the error box is the field stopStartErr, written
\* and read under errSync
setError(err) == stopStartErr' = err
getError == stopStartErr

\* variant of CallbackFailed: the callback's error is not looked at
CallbackFailedNever(err) == FALSE

\* `if err := w.i.Start(w); err != nil` and the same test after Stop
CallbackFailed(err) == err # NilErr

\* the (ssec, errno) pair Execute returns: (true, 1) after a failed Start,
\* (true, 2) after a failed Stop, (false, 0) otherwise
ExecuteExit(stage, err) ==
  IF ~CallbackFailed(err) THEN [ssec |-> FALSE, errno |-> 0]
  ELSE IF stage = "Start" THEN [ssec |-> TRUE, errno |-> 1]
  ELSE [ssec |-> TRUE, errno |-> 2]

\* variant of HandleCmd: Interrogate falls into the Stop case
HandleCmdInterrogateStops(cmd) ==
  IF cmd \in {"Stop", "Shutdown", "Interrogate"} THEN "stop" ELSE "ignore"

\* the switch on c.Cmd in the control loop
HandleCmd(cmd) ==
  IF cmd = "Interrogate" THEN "interrogate"
  ELSE IF cmd \in {"Stop", "Shutdown"} THEN "stop"
  ELSE "ignore"

\* variant of RunResult: the error of svc.Run is looked at first
RunResultDispatchFirst(startStopErr, dispatchErr) ==
  IF dispatchErr # NilErr THEN dispatchErr
  ELSE IF startStopErr # NilErr THEN startStopErr
  ELSE NilErr

\* what non-interactive Run returns: the error of the error box, else the
\* error of svc.Run, else nil
RunResult(startStopErr, dispatchErr) ==
  IF startStopErr # NilErr THEN startStopErr
  ELSE IF dispatchErr # NilErr THEN dispatchErr
  ELSE NilErr

\* variant of RunEntryBox: the error box is not cleared
RunEntryBoxStale == stopStartErr

\* `w.setError(nil)` at the head of Run: the content of the error box
\* when Run goes on
RunEntryBox == NilErr

\* Run up to the point where it blocks.  The error box is cleared.  Not
\* interactive: svc.Run either fails before it calls the handler, or calls
\* Execute, which reports StartPending, calls the Start callback and then
\* reports Running or returns (true, 1).  Interactive: the Start callback
\* is called and its error returned.
RunBegin(dispatchOk, err) ==
  /\ pc = "done"
  /\ op' = "Run"
  /\ SWIdle /\ InstIdle /\ HistIdle
  /\ calls' = <<>> /\ conn' = "none"
  /\ boxBefore' = stopStartErr
  /\ cmds' = <<>> /\ stopCalls' = 0
  /\ stopRet' = NilErr
  /\ IF ~interactive /\ ~dispatchOk
     THEN /\ setError(RunEntryBox)
          /\ runErr' = "ErrDispatch"
          /\ result' = RunResult(RunEntryBox, runErr')
          /\ pc' = "done"
          /\ reported' = "none" /\ startCalls' = 0 /\ startRet' = NilErr
          /\ exitCode' = 0 /\ ssec' = FALSE
     ELSE IF ~interactive
     THEN /\ startCalls' = 1 /\ startRet' = err
          /\ runErr' = NilErr
          /\ ssec' = ExecuteExit("Start", err).ssec
          /\ exitCode' = ExecuteExit("Start", err).errno
          /\ UNCHANGED result
          /\ IF CallbackFailed(err)
             THEN /\ setError(err)
                  /\ reported' = "StartPending"
                  /\ pc' = "exited"
             ELSE /\ setError(RunEntryBox)
                  /\ reported' = "Running"
                  /\ pc' = "execLoop"
     ELSE /\ setError(RunEntryBox)
          /\ startCalls' = 1 /\ startRet' = err
          /\ runErr' = NilErr /\ reported' = "none"
          /\ exitCode' = 0 /\ ssec' = FALSE
          /\ result' = err
          /\ pc' = IF err # NilErr THEN "done" ELSE "wait"
  /\ killArrived' = 0
  /\ UNCHANGED <<mgrVars, restartPolicy, interactive, ctxDone>>

\* one control signal taken from the channel r by the control loop.  The
\* dispatcher puts the status the handler reported last into the request
\* as c.CurrentStatus.
ExecuteSignal(cmd, err) ==
  /\ op = "Run" /\ pc = "execLoop"
  /\ Len(cmds) < MaxSignals
  /\ cmds' = Append(cmds, cmd)
  /\ LET c == [Cmd |-> cmd, CurrentStatus |-> reported]
     IN CASE HandleCmd(c.Cmd) = "interrogate" ->
               /\ reported' = c.CurrentStatus
               /\ UNCHANGED <<pc, stopCalls, stopRet, stopStartErr, ssec, exitCode>>
          [] HandleCmd(c.Cmd) = "stop" ->
               /\ reported' = "StopPending"
               /\ stopCalls' = stopCalls + 1
               /\ stopRet' = err
               /\ IF CallbackFailed(err) THEN setError(err) ELSE UNCHANGED stopStartErr
               /\ ssec' = ExecuteExit("Stop", err).ssec
               /\ exitCode' = ExecuteExit("Stop", err).errno
               /\ pc' = "exited"
          [] OTHER ->
               UNCHANGED <<reported, pc, stopCalls, stopRet, stopStartErr, ssec, exitCode>>
  /\ UNCHANGED <<mgrVars, cfgVars, op, result, histVars, swVars, startCalls,
                 startRet, runErr, boxBefore, instVars>>

\* svc.Run returns after Execute has returned, with or without an error of
\* its own, and Run picks its result.  The dispatcher reports Stopped to
\* the manager once the handler has returned.
RunReturn(dispatchErr) ==
  /\ op = "Run" /\ pc = "exited"
  /\ runErr' = dispatchErr
  /\ result' = RunResult(getError, dispatchErr)
  /\ reported' = "Stopped"
  /\ pc' = "done"
  /\ UNCHANGED <<mgrVars, cfgVars, op, histVars, swVars, stopStartErr,
                 startCalls, stopCalls, cmds, exitCode, ssec, startRet,
                 stopRet, boxBefore, instVars>>

\* variant of Woken: the select does not wait
WokenAlways(which, kills, done) == TRUE

\* the select of interactive Run: the case of SingleKillSignal() is ready
\* when a kill signal has arrived, the case of Context.Done() when the
\* context has ended
Woken(which, kills, done) ==
  \/ which = "kill" /\ kills > 0
  \/ which = "ctx" /\ done

\* a termination signal arrives at the process while interactive Run
\* listens, or after it has returned
EnvKill ==
  /\ op = "Run" /\ interactive /\ pc \in {"wait", "done"}
  /\ startRet = NilErr
  /\ killArrived < MaxSignals
  /\ killArrived' = killArrived + 1
  /\ UNCHANGED <<mgrVars, restartPolicy, interactive, ctxDone, op, pc, result,
                 histVars, swVars, stopStartErr, runVars, instVars>>

\* the caller's Context ends, at any time; only interactive Run reads it
EnvCancel ==
  /\ interactive /\ ~ctxDone
  /\ ctxDone' = TRUE
  /\ UNCHANGED <<mgrVars, restartPolicy, interactive, killArrived, op, pc,
                 result, histVars, swVars, stopStartErr, runVars, instVars>>

\* interactive Run: the kill signal or the end of the context wakes the
\* select, the Stop callback is called and its result returned
InteractiveWake(which, err) ==
  /\ op = "Run" /\ pc = "wait"
  /\ Woken(which, killArrived, ctxDone)
  /\ cmds' = Append(cmds, which)
  /\ stopCalls' = stopCalls + 1
  /\ stopRet' = err
  /\ result' = err
  /\ pc' = "done"
  /\ UNCHANGED <<mgrVars, cfgVars, op, histVars, swVars, stopStartErr,
                 reported, startCalls, exitCode, ssec, startRet, runErr,
                 boxBefore, instVars>>

\* ------------------------------------------------------ specification

\* the administrative operations
NextAdmin ==
  \/ \E c \in ConnectOutcomes, createOk, logOk, deleteOk, recOk \in BOOLEAN :
       Install(c, createOk, logOk, deleteOk, recOk)
  \/ \E c \in ConnectOutcomes, recOk, startOk \in BOOLEAN :
       Start(c, recOk, startOk)
  \/ \E c \in ConnectOutcomes, qok \in BOOLEAN : Status(c, qok)
  \/ \E c \in ConnectOutcomes : StopBegin(c)
  \/ \E c, c2 \in ConnectOutcomes : UninstallBegin(c, c2)
  \/ \E deleteOk, removeOk \in BOOLEAN : UninstallFinish(deleteOk, removeOk)
  \/ \E c \in ConnectOutcomes : RestartBegin(c)
  \/ \E c \in ConnectOutcomes, recOk, startOk \in BOOLEAN :
       RestartFinish(c, recOk, startOk)
  \/ \E qok \in BOOLEAN, p \in Pids : StopTick(qok, p)
  \/ \E killOk \in BOOLEAN : StopDeadline(killOk)

\* Run, in the service process
NextRun ==
  \/ \E dispatchOk \in BOOLEAN, err \in {NilErr} \cup WorkloadErrs :
       RunBegin(dispatchOk, err)
  \/ \E cmd \in Cmds, err \in {NilErr} \cup WorkloadErrs :
       ExecuteSignal(cmd, err)
  \/ \E dispatchErr \in {NilErr, "ErrDispatch"} : RunReturn(dispatchErr)
  \/ \E which \in {"kill", "ctx"}, err \in {NilErr} \cup WorkloadErrs :
       InteractiveWake(which, err)
  \/ EnvKill
  \/ EnvCancel

\* The administrative operations never read the interactive flag, and Run
\* never reads the restart policy: each specification starts from the
\* initial states with the flag it does not read switched off.
InitAdmin == Init /\ ~interactive
InitRun == Init /\ ~restartPolicy

SpecAdmin == InitAdmin /\ [][NextAdmin]_vars
SpecRun == InitRun /\ [][NextRun]_vars

\* ------------------------------------------------------------ claims

InStop == op = "Stop"
StopReturned == op = "Stop" /\ pc = "done"
\* the stop command was accepted and the workload reaches Stopped by
\* itself at time stopAt, before the configured stop timeout
StopsInTime == InStop /\ ctl = "accepted" /\ stopAt # Never /\ stopAt < stopTimeout
InExecute == op = "Run" /\ ~interactive
CallbackErr == IF startRet # NilErr THEN startRet ELSE stopRet

\* C1: once the deadline branch of stopWait has been taken, no poll tick
\* is processed any more: the forced termination is followed by the return.
C1_SingleEscalation == (InStop /\ timeoutFired) => lateTicks = 0

\* C2: when the stop command was accepted and the workload never reaches
\* Stopped, Stop has returned by the time the deadline (stop timeout plus
\* two ticks) is over.
C2_BoundedReturn ==
  (InStop /\ ctl = "accepted" /\ stopAt = Never /\ now > Deadline(stopTimeout))
    => pc = "done"

\* C3: when the stop command was accepted and the workload stops at a
\* time T before the configured stop timeout, forceKeep is never called,
\* the poll loop is left no later than T plus one tick interval, and Stop
\* returns success (every status query being answered; a failed query is
\* returned as the error it is, within the same time).
C3_StopInTime ==
  StopsInTime =>
    /\ forceCalls = 0 /\ ~timeoutFired
    /\ pc = "loop" => now < stopAt
    /\ pc = "done" =>
         /\ now <= stopAt + TickInterval
         /\ ~queryFailed => (result = NilErr /\ status.State = "Stopped")
         /\ queryFailed => result = "ErrQuery"

\* a stop that completed between two polls and was seen by the next one
C3_Witness ==
  /\ StopReturned /\ StopsInTime /\ stopAt = 1 /\ now = TickInterval
  /\ result = NilErr /\ status.State = "Stopped" /\ forceCalls = 0

\* C4: when the deadline has fired and the forced termination was
\* triggered, Stop returns no error.
C4_TimeoutNotError == (StopReturned /\ timeoutFired) => result = NilErr

\* C5 (as claimed): after a "not valid" rejection of the stop command Stop
\* never returns an error.
C5_NeverFails == (StopReturned /\ ctl = "notvalid") => result = NilErr

\* C5 (amended): after a "not valid" rejection Stop never returns the
\* rejection; it queries the status and force-terminates the process the
\* query names, and the only error it returns is that of a failed status
\* query.
C5_RejectionRecovered ==
  (InStop /\ ctl = "notvalid") =>
    /\ result # CtlErr("notvalid")
    /\ forceCalls >= 1 \/ (pc = "done" /\ queryFailed)
    /\ pc = "done" => (result = NilErr \/ (result = "ErrQuery" /\ queryFailed))

\* a rejected stop answered by the forced termination, Stop returning nil
C5_Witness ==
  /\ StopReturned /\ ctl = "notvalid" /\ result = NilErr
  /\ forceCalls >= 1 /\ lastKilled \in Pids

\* C6: in the control loop a Stop or Shutdown signal taken while Running
\* calls the Stop callback exactly once and ends the loop, after which no
\* signal is taken; an Interrogate signal calls neither callback and
\* leaves the reported state and the loop's position as they are.
C6_ControlLoop ==
  [][ (InExecute /\ op' = op) =>
        /\ (pc = "execLoop" /\ Len(cmds') = Len(cmds) + 1
              /\ cmds'[Len(cmds')] \in {"Stop", "Shutdown"}) =>
             /\ reported = "Running"
             /\ stopCalls = 0 /\ stopCalls' = 1
             /\ startCalls' = startCalls
             /\ pc' = "exited"
        /\ (pc = "execLoop" /\ Len(cmds') = Len(cmds) + 1
              /\ cmds'[Len(cmds')] = "Interrogate") =>
             /\ stopCalls' = stopCalls /\ startCalls' = startCalls
             /\ reported' = reported /\ pc' = pc
        /\ pc = "exited" =>
             (cmds' = cmds /\ stopCalls' = stopCalls /\ startCalls' = startCalls
                /\ pc' = "done")
    ]_vars

\* Interrogate signals followed by a Shutdown that ended the loop
C6_Witness ==
  /\ InExecute /\ pc = "exited" /\ Len(cmds) >= 3
  /\ cmds[1] = "Interrogate" /\ cmds[2] = "Interrogate"
  /\ cmds[Len(cmds)] = "Shutdown" /\ stopCalls = 1 /\ startCalls = 1

\* C7: an error of the Start or the Stop callback is in the error box and
\* the loop has ended with an exit code other than 0; after a failed Start
\* the loop has not reported Running, taken a signal or called Stop.
C7_CallbackError ==
  InExecute =>
    /\ CallbackErr # NilErr =>
         /\ stopStartErr = CallbackErr
         /\ pc \in {"exited", "done"}
         /\ ssec /\ exitCode # 0
    /\ startRet # NilErr =>
         (reported # "Running" /\ cmds = <<>> /\ stopCalls = 0)

\* a Stop callback that failed after a signal
C7_Witness ==
  /\ InExecute /\ pc = "exited" /\ stopRet = "errB" /\ startRet = NilErr
  /\ exitCode = 2 /\ stopStartErr = "errB"

\* C8: non-interactive Run returns the workload's error when a callback
\* failed, else the error of the dispatch when it failed, else nil.
C8_RunPriority ==
  (InExecute /\ pc = "done") =>
    result = (IF CallbackErr # NilErr THEN CallbackErr ELSE runErr)

\* a failed Start callback and a failed dispatch in the same Run
C8_Witness ==
  /\ InExecute /\ pc = "done" /\ startRet = "errA"
  /\ runErr = "ErrDispatch" /\ result = "errA"

\* C9: an Install that succeeds leaves the name registered; an Install of
\* a registered name (the manager being reachable) fails with
\* AlreadyExists, and no Install of a registered name changes the
\* registration or the log source.
C9_Install ==
  op = "Install" =>
    /\ (~regBefore /\ result = NilErr) => (registered /\ created)
    /\ regBefore =>
         /\ registered /\ logSource = logBefore /\ ~created
         /\ result \in {"AlreadyExists", connect("denied"), connect("fail")}

\* a second Install of the registered name
C9_Witness ==
  /\ op = "Install" /\ regBefore /\ logBefore /\ result = "AlreadyExists"
  /\ registered /\ logSource

\* C10 (as claimed): after a failed log-source registration the name is
\* not registered, or Install returns an error that names the failed
\* rollback.
C10_RollbackOrWrapped ==
  (op = "Install" /\ logFailed) => (~registered \/ result = "ErrRollback")

\* C10 (amended): after a failed log-source registration Install returns
\* the log-registration error, whatever the deletion did; the name is
\* registered afterwards exactly when the deletion failed.
C10_BestEffortRollback ==
  (op = "Install" /\ logFailed) =>
    /\ result = "ErrInstallAsEventCreate"
    /\ registered <=> deleteFailed
    /\ logSource = logBefore

\* a failed log-source registration undone by the deletion
C10_Witness ==
  /\ op = "Install" /\ created /\ logFailed /\ ~deleteFailed /\ ~registered
  /\ result = "ErrInstallAsEventCreate"

InUninstall == op = "Uninstall"
UninstallReturned == InUninstall /\ pc = "done"
RestartReturned == op = "Restart" /\ pc = "done"
Registration == <<registered, logSource, recovery, svcState>>
\* the number of entries x of the sequence seq
Count(seq, x) == Cardinality({i \in 1..Len(seq) : seq[i] = x})
\* the place of the first entry x of the sequence seq, 0 when there is none
First(seq, x) ==
  IF Has(seq, x) THEN CHOOSE i \in 1..Len(seq) :
                        seq[i] = x /\ \A j \in 1..(i - 1) : seq[j] # x
  ELSE 0

\* C11: Uninstall of a name that is not registered returns NotInstalled and
\* changes nothing; an Uninstall that succeeds leaves neither the
\* registration nor the log source, so that a further Uninstall returns
\* NotInstalled.
C11_Uninstall ==
  UninstallReturned =>
    /\ (~regBefore /\ conn = "ok") =>
         (result = "NotInstalled" /\ ~registered /\ calls = <<"open">>)
    /\ ~regBefore => result # NilErr
    /\ result = NilErr => (regBefore /\ ~registered /\ ~logSource)

\* an installed service with its log source was uninstalled
C11_Witness ==
  /\ UninstallReturned /\ result = NilErr /\ regBefore /\ logBefore
  /\ ~registered /\ ~logSource

\* C12: whatever the Stop called by Uninstall returned, the entry is
\* deleted next and the result is that of the deletion and of the removal
\* of the log source alone.
C12_BestEffortStop ==
  (UninstallReturned /\ stopRes # "none") =>
    /\ calls[Len(calls)] = "delete"
    /\ registered => result = "ErrDelete"
    /\ (~registered /\ logSource) => result = "ErrRemoveEventLogSource"
    /\ (~registered /\ ~logSource /\ logBefore) => result = NilErr
    /\ result \in {NilErr, "ErrDelete", "ErrRemoveEventLogSource"}

\* Uninstall succeeded although the Stop it called had failed
C12_Witness ==
  /\ UninstallReturned /\ stopRes \notin {"none", NilErr}
  /\ result = NilErr /\ ~registered

DeniedOps == {"Install", "Start", "Stop", "Restart", "Status"}

\* C14: a step of Install, Start, Stop, Restart or Status whose connect is
\* refused for lack of rights yields ErrNotAnAdministrator ("Unknown" for
\* Status), makes no manager call and leaves the registration as it was;
\* Restart returns that error of its Stop without a further call.
C14_AccessDenied ==
  [][ /\ (pc = "done" /\ op' \in DeniedOps /\ conn' = "denied") =>
           /\ result' = IF op' = "Status" THEN "Unknown"
                                          ELSE "ErrNotAnAdministrator"
           /\ calls' = <<>>
           /\ Registration' = Registration
           /\ openSessions' = 0 /\ openHandles' = 0
      /\ (op = "Restart" /\ pc = "afterStop" /\ conn' = "denied") =>
           /\ result' = "ErrNotAnAdministrator"
           /\ pc' = "done"
           /\ calls' = calls
           /\ Registration' = Registration
    ]_vars

\* Restart of a registered service was refused at the connect of its Stop
C14_Witness ==
  /\ RestartReturned /\ conn = "denied" /\ stopRes = "ErrNotAnAdministrator"
  /\ result = "ErrNotAnAdministrator" /\ calls = <<>> /\ registered

\* C15: when the Stop called by Restart fails Restart returns its error and
\* Start is not run: no entry is opened again, no recovery action set and
\* no start command issued; a start command is issued only after the Stop
\* has returned without error.
C15_RestartAborts ==
  op = "Restart" =>
    /\ pc # "done" => ~Has(calls, "start")
    /\ Has(calls, "start") => stopRes = NilErr
    /\ (pc = "done" /\ stopRes # NilErr) =>
         /\ result = stopRes
         /\ ~Has(calls, "start")
         /\ Count(calls, "open") <= 1
         /\ Count(calls, "recovery") <= 1
         /\ Has(calls, "recovery") => First(calls, "recovery") = 2

\* Restart returned the rejection of the stop command
C15_Witness ==
  /\ RestartReturned /\ stopRes = CtlErr("other") /\ result = stopRes
  /\ Has(calls, "control") /\ ~Has(calls, "start")

C17_Released ==
  /\ pc = "done" => (openSessions = 0 /\ openHandles = 0)
  /\ openSessions \in 0..2 /\ openHandles \in 0..2
  /\ openSessions = openHandles

\* Install has returned "already exists" and the handle it opened is closed
C17_Witness ==
  /\ op = "Install" /\ pc = "done" /\ result = "AlreadyExists"
  /\ calls = <<"open">> /\ openSessions = 0 /\ openHandles = 0

InInteractive == op = "Run" /\ interactive

\* C18: interactive Run calls Start, blocks until a kill signal or the end
\* of the Context has arrived, then calls Stop once and returns Stop's
\* result: Stop is never called before an arrival nor a second time,
\* however many signals and cancellations arrive.
C18_StopOnceOnArrival ==
  InInteractive =>
    /\ startCalls = 1 /\ stopCalls <= 1
    /\ pc = "wait" => (stopCalls = 0 /\ startRet = NilErr)
    /\ stopCalls = 1 =>
         /\ killArrived > 0 \/ ctxDone
         /\ startRet = NilErr /\ pc = "done" /\ result = stopRet
    /\ (pc = "done" /\ startRet = NilErr) => stopCalls = 1

\* several kill signals and the end of the Context have arrived; Stop was
\* called once
C18_Witness ==
  /\ InInteractive /\ pc = "done" /\ stopCalls = 1
  /\ killArrived >= 2 /\ ctxDone /\ result = stopRet

\* C19: the error box belongs to one Run: Run starts with an empty box, so
\* an error an earlier Run captured is not returned by a Run whose
\* callbacks and dispatch succeed.
C19_BoxPerRun ==
  op = "Run" =>
    /\ stopStartErr = (IF interactive THEN NilErr ELSE CallbackErr)
    /\ (InExecute /\ pc = "done" /\ CallbackErr = NilErr /\ runErr = NilErr)
         => result = NilErr

\* a Run that succeeded although the Run before it had captured an error
C19_Witness ==
  /\ InExecute /\ pc = "done" /\ boxBefore \in WorkloadErrs
  /\ startCalls = 1 /\ stopCalls = 1 /\ result = NilErr

\* C20: after a "not valid" rejection of the stop command stopWait has
\* queried once and force-terminated once and has returned: it polls no
\* status and its deadline fires no second forced termination.
C20_NoPollAfterRejection ==
  (InStop /\ ctl = "notvalid") =>
    /\ pc = "done"
    /\ Count(calls, "query") <= 1
    /\ forceCalls <= 1 /\ ~timeoutFired

\* C20 as the code has it: after the query and the forced termination of
\* a rejected stop the poll loop of an accepted stop follows unless the
\* query found the service Stopped: without error stopWait returns only
\* on an observed Stopped, and the deadline's firing is a second forced
\* termination.
C20_PollAfterFallback ==
  (InStop /\ ctl = "notvalid" /\ ~queryFailed) =>
    /\ calls[1] = "open" /\ First(calls, "query") = First(calls, "control") + 1
    /\ forceCalls = (IF timeoutFired THEN 2 ELSE 1)
    /\ pc = "loop" => status.State # "Stopped"
    /\ (pc = "done" /\ result = NilErr) => status.State = "Stopped"
    /\ Count(calls, "query") >= 1

\* a rejected stop whose fallback was followed by polls and by the
\* deadline's forced termination
C20_Witness ==
  /\ InStop /\ ctl = "notvalid" /\ ~queryFailed /\ timeoutFired
  /\ forceCalls = 2 /\ Count(calls, "query") >= 3

====
